---- MODULE Spec2Model ----
(***************************************************************************)
(* The mail relay endpoint of dmacia49/email-proxy: the pooled-sender       *)
(* handler of src/api/send.js (variant "base") and its retrying iteration   *)
(* src/unnamed/part_002 (variant "retry").                                  *)
(*                                                                          *)
(* One process serves requests one after the other.  A request is a single  *)
(* message or a batch.  The handler runs synchronously up to its first      *)
(* await (validation, account selection, the first sendMail calls); every   *)
(* later step is the continuation that runs when one sendMail promise       *)
(* settles or one retry timer fires.  JavaScript runs each continuation to  *)
(* its next await without interleaving, so each is one action.              *)
(*                                                                          *)
(* The mail transport is external: a send settles with success or with any  *)
(* error of TransportErrors, chosen nondeterministically at completion.     *)
(* Pool accounts are taken to have pairwise distinct users.                 *)
(***************************************************************************)
EXTENDS Naturals, Sequences, FiniteSets, TLC

\* ------------------------------------------------------------------ bounds
MaxBatch == 4
MaxRequests == 2
MaxProcBatch == 2
MaxLiveBatch == 3

\* ------------------------------------------------------------ small helpers
\* JavaScript's a || b on strings: the empty string is falsy.
Or(a, b) == IF a # "" THEN a ELSE b

Range(s) == {s[j] : j \in DOMAIN s}

\* ------------------------------------------------------------- sender pool
\* The environment: which of GMAIL1..3 have both user and password set.
Environments == {{}, {1}, {1, 2}, {1, 2, 3}}

User(g) == <<"u1", "u2", "u3">>[g]

\* The order in which the two files list GMAIL1..3 as PRIMARY, BACKUP_A, BACKUP_B.
PoolOrder(v) == IF v = "base" THEN <<1, 2, 3>> ELSE <<2, 1, 3>>

\* SENDER_POOL = [...].filter((a) => a.user && a.pass)
SenderPool(v, env) ==
  LET ord == PoolOrder(v)
      keep(g) == g \in env
  IN  [j \in 1..Len(SelectSeq(ord, keep)) |-> User(SelectSeq(ord, keep)[j])]

NoAccount == "null"

\* ---------------------------------------------------------------- transport
\* An error thrown by transporter.sendMail: its responseCode (0: none) and the
\* text of its message.
QuotaText == "550-5.4.5 Daily user sending limit exceeded"
TimeoutText == "connect ETIMEDOUT"
OtherText == "Mailbox unavailable"
LabelText == "Daily limit"

Err(c, m) == [kind |-> "err", code |-> c, msg |-> m]
Pending == [kind |-> "pending", code |-> 0, msg |-> ""]
Delivered == [kind |-> "ok", code |-> 0, msg |-> ""]

\* The errors a send of a batch settles with: one per way the dispatchers branch
\* (quota text with and without an SMTP code, a permanent and a temporary code).
TransportErrors ==
  { Err(550, QuotaText), Err(0, QuotaText), Err(550, OtherText), Err(421, OtherText) }

\* The errors the send of a single message settles with: every kind of text
\* with and without a code of each class.
SingleErrors ==
  TransportErrors \cup
    { Err(421, QuotaText), Err(0, TimeoutText), Err(0, OtherText), Err(0, LabelText),
      Err(0, ""), Err(553, ""), Err(452, TimeoutText) }

\* The errors of a batch send of src/api/send.js, whose batch path branches on
\* the quota text alone.
BaseBatchErrors == TransportErrors \ {Err(0, QuotaText)}

\* Texts that differ from the ones above in case, or match another alternative
\* of the timeout pattern, or match both patterns.
QuotaLowerText == "daily user sending limit exceeded"
ResetText == "read ECONNRESET"
GreetingText == "Greeting never received: timeout"
QuotaTimeoutText == "Timeout: Daily user sending limit exceeded"

\* /Daily user sending limit exceeded/i.test(msg)
MatchesQuota(msg) == msg \in {QuotaText, QuotaLowerText, QuotaTimeoutText}
\* /ETIMEDOUT|ECONNRESET|Timeout/i.test(msg)
MatchesTimeout(msg) == msg \in {TimeoutText, ResetText, GreetingText, QuotaTimeoutText}

\* classify of src/unnamed/part_002: the SMTP codes are tested first.
classifyRetry(err) ==
  IF err.code \in {421, 451, 452}
    THEN [retryable |-> TRUE, reason |-> "Temporary failure"]
  ELSE IF err.code \in {550, 553, 554}
    THEN [retryable |-> FALSE, reason |-> "Recipient rejected"]
  ELSE IF MatchesQuota(err.msg) THEN [retryable |-> FALSE, reason |-> "Daily limit"]
  ELSE IF MatchesTimeout(err.msg)
    THEN [retryable |-> TRUE, reason |-> "Network timeout"]
  ELSE [retryable |-> FALSE, reason |-> Or(err.msg, "Unknown error")]

\* classify of src/api/send.js: the quota pattern is tested first.
classifyCodesFirst(err) == classifyRetry(err)

classify(err) ==
  IF MatchesQuota(err.msg) THEN [retryable |-> FALSE, reason |-> "Daily limit"]
  ELSE IF err.code \in {550, 553, 554}
    THEN [retryable |-> FALSE, reason |-> "Recipient rejected"]
  ELSE IF err.code \in {421, 451, 452}
    THEN [retryable |-> TRUE, reason |-> "Temporary failure"]
  ELSE IF MatchesTimeout(err.msg)
    THEN [retryable |-> TRUE, reason |-> "Network timeout"]
  ELSE [retryable |-> FALSE, reason |-> Or(err.msg, "Unknown error")]

Classify(v, err) == IF v = "base" THEN classify(err) ELSE classifyRetry(err)

\* The result object of one send on one account: sendOnceWithAccount.
sendOnceSwallowed(acc, o, mid) ==
  [ok |-> FALSE, account |-> acc, id |-> <<>>,
   error |-> IF o.kind = "ok" THEN Err(0, QuotaText) ELSE o,
   classify |-> classify(IF o.kind = "ok" THEN Err(0, QuotaText) ELSE o)]

sendOnceWithAccount(acc, o, mid) ==
  IF o.kind = "ok"
    THEN [ok |-> TRUE, account |-> acc, id |-> mid, error |-> o,
          classify |-> [retryable |-> FALSE, reason |-> ""]]
    ELSE [ok |-> FALSE, account |-> acc, id |-> <<>>, error |-> o,
          classify |-> classify(o)]

\* --------------------------------------------------------------- validation
Whitespace == {" "}

RECURSIVE TrimLeft(_)
TrimLeft(s) ==
  IF s # <<>> /\ Head(s) \in Whitespace THEN TrimLeft(Tail(s)) ELSE s

RECURSIVE TrimRight(_)
TrimRight(s) ==
  IF s # <<>> /\ s[Len(s)] \in Whitespace
    THEN TrimRight(SubSeq(s, 1, Len(s) - 1)) ELSE s

Trim(s) == TrimRight(TrimLeft(s))

\* /^[^\s@]+@[^\s@]+\.[^\s@]+$/.test(s.trim())
isValidEmail(s) ==
  LET t == Trim(s)
      plain(a, b) == \A j \in a..b : t[j] \notin Whitespace \cup {"@"}
  IN  \E at \in 1..Len(t) : \E dot \in 1..Len(t) :
        /\ t[at] = "@" /\ t[dot] = "."
        /\ 1 < at /\ at + 1 < dot /\ dot < Len(t)
        /\ plain(1, at - 1) /\ plain(at + 1, dot - 1) /\ plain(dot + 1, Len(t))

\* Math.floor(len * 0.75) of a base64 text of the given length
b64ApproxBytes(len) == (len * 3) \div 4

\* Number(process.env.MAX_ATTACHMENT_BYTES || 10 * 1024 * 1024)
MaxAttachmentBytes == 10 * 1024 * 1024

\* A message of a request body.  to is a text (a sequence of characters), pdf
\* the length of the base64 text (0: absent or empty), the others "" when
\* absent or empty.
Msg(to, subject, body, pdf, url) ==
  [to |-> to, subject |-> subject, body |-> body, pdf |-> pdf, attachmentUrl |-> url]

Letters == <<"a", "b", "c", "d", "e", "f">>

Addr(i) == <<Letters[i], "@", "x", ".", "y">>

\* The i-th message of a well-formed batch: a distinct recipient per index,
\* alternately an inline and a remote attachment.
GoodMsg(i) ==
  IF i % 2 = 1 THEN Msg(Addr(i), "s", "b", 8, "") ELSE Msg(Addr(i), "s", "b", 0, "u")

BadMsgs ==
  { Msg(Addr(1), "", "b", 8, ""),                      \* no subject
    Msg(Addr(1), "s", "b", 0, ""),                     \* no attachment
    Msg(<<"a", "@", "x">>, "s", "b", 8, ""),           \* no dot after the @
    Msg(<<"a", " ", "@", "x", ".", "y">>, "s", "b", 8, ""),
    Msg(Addr(1), "s", "b", 13981016, "") }             \* over 10 MiB

SingleMsgs ==
  { GoodMsg(1), GoodMsg(2),
    Msg(<<" ", "a", "@", "x", ".", "y", " ">>, "s", "b", 8, "u") } \cup BadMsgs

\* The validation of one message: 0 when it passes, else the HTTP status.
ValidateMsgExactlyOne(m) ==
  IF m.subject = "" \/ m.body = "" \/ m.to = <<>>
       \/ ((m.pdf = 0) <=> (m.attachmentUrl = ""))
    THEN 400
  ELSE IF ~isValidEmail(m.to) THEN 400
  ELSE IF m.pdf # 0 /\ b64ApproxBytes(m.pdf) > MaxAttachmentBytes THEN 413
  ELSE 0

ValidateMsg(m) ==
  IF m.subject = "" \/ m.body = "" \/ m.to = <<>>
       \/ (m.pdf = 0 /\ m.attachmentUrl = "")
    THEN 400
  ELSE IF ~isValidEmail(m.to) THEN 400
  ELSE IF m.pdf # 0 /\ b64ApproxBytes(m.pdf) > MaxAttachmentBytes THEN 413
  ELSE 0

\* The validation loop: the index and the status of the first message that fails,
\* <<0, 0>> when all pass.
ValidateFirstOnly(ms) ==
  IF ms = <<>> \/ ValidateMsg(ms[1]) = 0 THEN <<0, 0>> ELSE <<1, ValidateMsg(ms[1])>>

Validate(ms) ==
  LET bad == {j \in 1..Len(ms) : ValidateMsg(ms[j]) # 0}
      j0 == CHOOSE j \in bad : \A h \in bad : j <= h
  IN  IF bad = {} THEN <<0, 0>> ELSE <<j0, ValidateMsg(ms[j0])>>

\* -------------------------------------------------------------------- state
VARIABLES
  variant,          \* which file the process runs: "base" or "retry"
  SENDER_POOL,      \* the pool, a sequence of users
  reqNo,            \* requests received so far
  phase,            \* "idle", "single" or "batch"
  messages,         \* the messages of the request being served
  pipe,             \* per message: where its pipeline is suspended
  lastError,        \* single send: the last error thrown
  disabledForLimit, \* batch: users that hit the daily limit
  perAccountStats,  \* batch: per pool position, the counters
  results,          \* batch: per message, the pipeline's result
  response,         \* the response of the last request served
  log,              \* per message, the sends issued to the transport
  quotaBefore,      \* users that returned a Daily limit failure to an earlier request
  isBatch,          \* whether the request being served is a batch
  lastPick,         \* the last pickAccount call: its argument, the set, its result
  classified        \* a classify call on its own: its argument and its result

vars == <<variant, SENDER_POOL, reqNo, phase, messages, pipe, lastError,
          disabledForLimit, perAccountStats, results, response, log, quotaBefore,
          isBatch, lastPick, classified>>

NoResponse == [status |-> 0]
\* The slot of a message whose pipeline has not returned yet.
NoResult ==
  [done |-> FALSE, ok |-> FALSE, to |-> <<>>, sender |-> "null", id |-> <<>>,
   reassigned |-> FALSE, retried |-> FALSE, error |-> ""]
NoError == Pending
\* No classify call made yet on the argument err.
NoClass == [retryable |-> FALSE, reason |-> ""]
Unclassified(err) == [called |-> FALSE, err |-> err, result |-> NoClass]
NoClassified == Unclassified(Pending)
NoPick == [called |-> FALSE, startIndex |-> 0, disabled |-> {}, result |-> "null"]
Picked(startIndex, disabled, result) ==
  [called |-> TRUE, startIndex |-> startIndex, disabled |-> disabled, result |-> result]

\* The id the transport gives the send that is the last entry of log[i].
MessageId(i) == <<i, Len(log[i])>>

\* A pipeline suspended in (or finished with) a send on account acc.
\* pc: "send" (first sendMail in flight), "sleep" (the retry delay), "resend"
\* (second sendMail in flight) or "done"; acc: the account of the attempt;
\* k: its pool position in the single loop; attempted: the attempts so far;
\* first: the account picked first for the message.
Pipe(pc, acc, k, attempted, first) ==
  [pc |-> pc, acc |-> acc, k |-> k, attempted |-> attempted, first |-> first]

\* The transport log after the send in flight for message i settles with o.
Settle(i, o) ==
  [log EXCEPT ![i] = [@ EXCEPT ![Len(@)] = [acc |-> @.acc, out |-> o]]]

\* ... and then a new send for message i is issued on account acc.
SettleAndIssue(i, o, acc) ==
  [log EXCEPT ![i] = Append([@ EXCEPT ![Len(@)] = [acc |-> @.acc, out |-> o]],
                            [acc |-> acc, out |-> Pending])]

\* The users that returned a Daily limit failure to the request being served.
QuotaNow ==
  UNION { { log[i][j].acc : j \in
              {h \in 1..Len(log[i]) :
                 /\ log[i][h].out.kind = "err"
                 /\ Classify(variant, log[i][h].out).reason = "Daily limit"} }
          : i \in DOMAIN log }

Respond(r) ==
  /\ response' = r
  /\ phase' = "idle"

\* ---------------------------------------------------------- the dispatcher
\* pickAccount(startIndex) with the set of disabled users as it is at the call:
\* the first pool account at or after startIndex (mod n, wrapping) that is not
\* disabled, null when there is none.
RECURSIVE pickFrom(_, _, _, _)
pickFrom(pool, disabled, startIndex, step) ==
  IF step >= Len(pool) THEN NoAccount
  ELSE LET acc == pool[((startIndex + step) % Len(pool)) + 1]
       IN  IF acc \notin disabled THEN acc
           ELSE pickFrom(pool, disabled, startIndex, step + 1)

pickAccountNoSkip(startIndex, disabled) ==
  SENDER_POOL[(startIndex % Len(SENDER_POOL)) + 1]

pickAccountFromZero(startIndex, disabled) == pickFrom(SENDER_POOL, disabled, 0, 0)

pickAccount(startIndex, disabled) == pickFrom(SENDER_POOL, disabled, startIndex, 0)

\* perAccountStats.find((p) => p.user === user): the first position, 0 if none.
FindStat(stats, user) ==
  LET hits == {j \in DOMAIN stats : stats[j].user = user}
  IN  IF hits = {} THEN 0 ELSE CHOOSE j \in hits : \A h \in hits : j <= h

IncSentLost(stats, user) ==
  LET j == FindStat(stats, user)
  IN  IF j = 0 \/ stats[j].sent > 0 THEN stats ELSE [stats EXCEPT ![j].sent = @ + 1]

IncSent(stats, user) ==
  LET j == FindStat(stats, user)
  IN  IF j = 0 THEN stats ELSE [stats EXCEPT ![j].sent = @ + 1]

IncFailedOnPrimary(stats, user) ==
  IF stats = <<>> THEN stats ELSE [stats EXCEPT ![1].failed = @ + 1]

IncFailed(stats, user) ==
  LET j == FindStat(stats, user)
  IN  IF j = 0 THEN stats ELSE [stats EXCEPT ![j].failed = @ + 1]

MarkDisabledToggle(stats, user) ==
  LET j == FindStat(stats, user)
  IN  IF j = 0 THEN stats
      ELSE [stats EXCEPT ![j].disabledForLimit = ~stats[j].disabledForLimit]

MarkDisabled(stats, user) ==
  LET j == FindStat(stats, user)
  IN  IF j = 0 THEN stats ELSE [stats EXCEPT ![j].disabledForLimit = TRUE]

InitialStats(pool) ==
  [j \in 1..Len(pool) |->
     [user |-> pool[j], sent |-> 0, failed |-> 0, disabledForLimit |-> FALSE]]

\* The value a batch pipeline returns for its message.
SuccessUntagged(to, sender, id, reassigned, retried) ==
  [done |-> TRUE, ok |-> TRUE, to |-> to, sender |-> sender, id |-> id,
   reassigned |-> FALSE, retried |-> retried, error |-> ""]

Success(to, sender, id, reassigned, retried) ==
  [done |-> TRUE, ok |-> TRUE, to |-> to, sender |-> sender, id |-> id,
   reassigned |-> reassigned, retried |-> retried, error |-> ""]

Failure(to, error) ==
  [done |-> TRUE, ok |-> FALSE, to |-> to, sender |-> NoAccount, id |-> <<>>,
   reassigned |-> FALSE, retried |-> FALSE, error |-> error]

ExhaustedText == "All accounts exhausted (daily limit)"

\* Request bodies.  A single body is one message; a batch body is messages[].
BatchOf(k) == [i \in 1..k |-> GoodMsg(i)]

\* ... with its j-th message replaced by b.
Spoiled(k, j, b) == [i \in 1..k |-> IF i = j THEN b ELSE GoodMsg(i)]

BatchBodies(limit) ==
  {BatchOf(k) : k \in 0..limit}
    \cup {Spoiled(2, j, b) : j \in 1..2, b \in BadMsgs}

\* Everything a request allocates, as it is before the request is served.
ResetLocals ==
  /\ lastPick' = NoPick
  /\ pipe' = <<>>
  /\ lastError' = NoError
  /\ disabledForLimit' = {}
  /\ perAccountStats' = <<>>
  /\ results' = <<>>
  /\ log' = <<>>

\* handler, up to its first await: the guards, the validation, and for a valid
\* request the first sendMail call of the single loop, or the initial account
\* pick and sendMail call of every batch pipeline (Promise.all over map).
Handler(ms, batch) ==
  /\ phase = "idle"
  /\ reqNo' = reqNo + 1
  /\ messages' = ms
  /\ isBatch' = batch
  /\ quotaBefore' = quotaBefore \cup QuotaNow
  /\ UNCHANGED <<classified, variant, SENDER_POOL>>
  /\ IF Len(SENDER_POOL) = 0
       THEN /\ Respond([status |-> 500, error |-> "No sender accounts configured"])
            /\ ResetLocals
     ELSE IF Validate(ms)[1] # 0
       THEN /\ Respond([status |-> Validate(ms)[2], error |-> "invalid",
                        index |-> Validate(ms)[1] - 1])
            /\ ResetLocals
     ELSE IF ~batch
       THEN /\ phase' = "single"
            /\ response' = NoResponse
            /\ lastPick' = NoPick
            /\ pipe' = <<Pipe("send", SENDER_POOL[1], 1, 1, SENDER_POOL[1])>>
            /\ log' = <<<<[acc |-> SENDER_POOL[1], out |-> Pending]>>>>
            /\ lastError' = NoError
            /\ disabledForLimit' = {}
            /\ perAccountStats' = <<>>
            /\ results' = <<>>
     ELSE LET first(i) == pickAccount(i - 1, {})
          IN  /\ phase' = "batch"
              /\ response' = NoResponse
              /\ lastPick' = IF ms = <<>> THEN NoPick
                              ELSE Picked(Len(ms) - 1, {}, first(Len(ms)))
              /\ disabledForLimit' = {}
              /\ perAccountStats' = InitialStats(SENDER_POOL)
              /\ lastError' = NoError
              /\ pipe' = [i \in 1..Len(ms) |->
                           IF first(i) = NoAccount THEN Pipe("done", NoAccount, 0, 0, NoAccount)
                           ELSE Pipe("send", first(i), 0, 1, first(i))]
              /\ log' = [i \in 1..Len(ms) |->
                          IF first(i) = NoAccount THEN <<>>
                          ELSE <<[acc |-> first(i), out |-> Pending]>>]
              /\ results' = [i \in 1..Len(ms) |->
                              IF first(i) = NoAccount
                                THEN Failure(ms[i].to, ExhaustedText)
                                ELSE NoResult]

HandlerSingle(maxReq) ==
  /\ reqNo < maxReq
  /\ \E m \in SingleMsgs : Handler(<<m>>, FALSE)

HandlerBatch(maxReq, limit) ==
  /\ reqNo < maxReq
  /\ \E ms \in BatchBodies(limit) : Handler(ms, TRUE)

\* ----------------------------------------- src/api/send.js: the single loop
\* recipient: msg.to, the value the response reports.
RecipientTrimmed(msg) == Trim(msg.to)

Recipient(msg) == msg.to

\* The single loop goes on to the next account: the negation of the test
\* `!(out.classify && out.classify.reason === "Daily limit")`.
singleFailsOverOnRetryable(out) ==
  out.classify.reason = "Daily limit" \/ out.classify.retryable

singleFailsOver(out) == out.classify.reason = "Daily limit"

\* The continuation of `await sendOnceWithAccount(acc, mailBase)` in the loop
\* over SENDER_POOL, when the send settles with o.
SingleContinue(o) ==
  LET p == pipe[1]
      msg == messages[1]
      out == sendOnceWithAccount(p.acc, o, MessageId(1))
      reason == Or(out.classify.reason, Or(out.error.msg, "unknown"))
  IN  /\ UNCHANGED <<classified, variant, SENDER_POOL, reqNo, messages, disabledForLimit,
                     perAccountStats, results, isBatch, lastPick, quotaBefore>>
      /\ IF out.ok
           THEN /\ Respond([status |-> 200, message |-> "Email sent",
                            recipient |-> Recipient(msg), sender |-> p.acc,
                            id |-> out.id])
                /\ pipe' = [pipe EXCEPT ![1].pc = "done"]
                /\ log' = Settle(1, o)
                /\ UNCHANGED lastError
         ELSE IF ~singleFailsOver(out)
           THEN /\ Respond([status |-> 502, error |-> "Send failed", detail |-> reason])
                /\ pipe' = [pipe EXCEPT ![1].pc = "done"]
                /\ log' = Settle(1, o)
                /\ lastError' = out.error
         ELSE IF p.k < Len(SENDER_POOL)
           THEN /\ pipe' = <<Pipe("send", SENDER_POOL[p.k + 1], p.k + 1, p.attempted + 1, p.first)>>
                /\ log' = SettleAndIssue(1, o, SENDER_POOL[p.k + 1])
                /\ lastError' = out.error
                /\ UNCHANGED <<phase, response>>
         ELSE /\ Respond([status |-> 500,
                          error |-> "Failed to send email on all accounts",
                          detail |-> Or(out.error.msg, "Unknown error")])
              /\ pipe' = [pipe EXCEPT ![1].pc = "done"]
              /\ log' = Settle(1, o)
              /\ lastError' = out.error

SingleSendResolves ==
  /\ variant = "base" /\ phase = "single" /\ pipe[1].pc = "send"
  /\ SingleContinue(Delivered)

SingleSendRejects ==
  /\ variant = "base" /\ phase = "single" /\ pipe[1].pc = "send"
  /\ \E e \in SingleErrors : SingleContinue(e)

\* ---------------------------------------- src/api/send.js: a batch pipeline
\* The continuation of a batch pipeline's await when the send settles with o:
\* of `await sendOnceWithAccount(acc, mailBase)` when attempted = 1, of
\* `await sendOnceWithAccount(fallback, mailBase)` when attempted = 2.
BatchContinue(i, o) ==
  LET p == pipe[i]
      msg == messages[i]
      out == sendOnceWithAccount(p.acc, o, MessageId(i))
      reason == Or(out.classify.reason, Or(out.error.msg, "unknown"))
      disabled == disabledForLimit \cup {p.acc}
      fallback == pickAccount(i, disabled)
      finish(r) == /\ results' = [results EXCEPT ![i] = r]
                   /\ pipe' = [pipe EXCEPT ![i].pc = "done"]
                   /\ log' = Settle(i, o)
  IN  /\ UNCHANGED <<classified, variant, SENDER_POOL, reqNo, messages, lastError, phase, response,
                     isBatch, quotaBefore>>
      /\ IF p.attempted = 1
           THEN IF out.ok
             THEN /\ perAccountStats' = IncSent(perAccountStats, p.acc)
                  /\ finish(Success(msg.to, p.acc, out.id, FALSE, FALSE))
                  /\ UNCHANGED <<disabledForLimit, lastPick>>
             ELSE IF out.classify.reason = "Daily limit"
               THEN /\ disabledForLimit' = disabled
                    /\ lastPick' = Picked(i, disabled, fallback)
                    /\ IF fallback # NoAccount
                         THEN /\ perAccountStats' = MarkDisabled(perAccountStats, p.acc)
                              /\ pipe' = [pipe EXCEPT ![i] = Pipe("send", fallback, 0, 2, p.first)]
                              /\ log' = SettleAndIssue(i, o, fallback)
                              /\ UNCHANGED results
                         ELSE /\ perAccountStats' =
                                   IncFailed(MarkDisabled(perAccountStats, p.acc), p.acc)
                              /\ finish(Failure(msg.to, ExhaustedText))
               ELSE /\ perAccountStats' = IncFailed(perAccountStats, p.acc)
                    /\ finish(Failure(msg.to, reason))
                    /\ UNCHANGED <<disabledForLimit, lastPick>>
           ELSE /\ UNCHANGED <<disabledForLimit, lastPick>>
                /\ IF out.ok
                     THEN /\ perAccountStats' = IncSent(perAccountStats, p.acc)
                          /\ finish(Success(msg.to, p.acc, out.id, TRUE, FALSE))
                     ELSE /\ perAccountStats' = IncFailed(perAccountStats, p.acc)
                          /\ finish(Failure(msg.to, reason))

BatchSendResolves(i) ==
  /\ variant = "base" /\ phase = "batch"
  /\ i \in DOMAIN pipe /\ pipe[i].pc = "send"
  /\ BatchContinue(i, Delivered)

BatchSendRejects(i) ==
  /\ variant = "base" /\ phase = "batch"
  /\ i \in DOMAIN pipe /\ pipe[i].pc = "send"
  /\ \E e \in BaseBatchErrors : BatchContinue(i, e)

\* summary.perAccount: src/api/send.js reports perAccountStats as it stands,
\* part_002 reads each account's disabledForLimit off the set.
PerAccountReport(v, stats, disabled) ==
  IF v = "base" THEN stats
  ELSE [j \in DOMAIN stats |->
          [stats[j] EXCEPT !.disabledForLimit = stats[j].user \in disabled]]

\* The summary the batch handler builds once Promise.all has resolved.
SummaryFilterThenMap(ms, rs, stats, disabled) ==
  LET isFailed(r) == ~r.ok
      kept == SelectSeq(rs, isFailed)
  IN  [total |-> Len(ms),
       success |-> Cardinality({i \in 1..Len(rs) : rs[i].ok}),
       failed |-> Len(kept),
       perAccount |-> PerAccountReport(variant, stats, disabled),
       failures |-> [j \in 1..Len(kept) |->
                       [index |-> j - 1, to |-> ms[j].to, error |-> kept[j].error]]]

Summary(ms, rs, stats, disabled) ==
  LET failedIdx == {i \in 1..Len(rs) : ~rs[i].ok}
      entry(i) == [index |-> i - 1, to |-> ms[i].to, error |-> rs[i].error]
      all == [i \in 1..Len(rs) |-> [i |-> i, failed |-> ~rs[i].ok]]
      isFailed(e) == e.failed
      kept == SelectSeq(all, isFailed)
  IN  [total |-> Len(ms),
       success |-> Cardinality({i \in 1..Len(rs) : rs[i].ok}),
       failed |-> Cardinality(failedIdx),
       perAccount |-> PerAccountReport(variant, stats, disabled),
       failures |-> [j \in 1..Len(kept) |-> entry(kept[j].i)]]

BatchRespondEarly ==
  /\ phase = "batch"
  /\ \E i \in DOMAIN pipe : pipe[i].pc = "done"
  /\ Respond([status |-> 200, message |-> "Batch processed",
              summary |-> Summary(messages, results, perAccountStats, disabledForLimit),
              results |-> results])
  /\ UNCHANGED <<classified, variant, SENDER_POOL, reqNo, messages, pipe, lastError,
                 disabledForLimit, perAccountStats, results, log, quotaBefore,
                 isBatch, lastPick>>

\* Promise.all resolves when every pipeline has returned; the handler responds.
BatchRespond ==
  /\ phase = "batch"
  /\ \A i \in DOMAIN pipe : pipe[i].pc = "done"
  /\ Respond([status |-> 200, message |-> "Batch processed",
              summary |-> Summary(messages, results, perAccountStats, disabledForLimit),
              results |-> results])
  /\ UNCHANGED <<classified, variant, SENDER_POOL, reqNo, messages, pipe, lastError,
                 disabledForLimit, perAccountStats, results, log, quotaBefore,
                 isBatch, lastPick>>

\* ------------------------------------------ src/unnamed/part_002: the retry
\* The result object of sendWithAccount when its last sendMail settles with o;
\* retried tells whether that was the second sendMail of the call.
sendWithAccount(acc, o, mid, retried) ==
  IF o.kind = "ok"
    THEN [ok |-> TRUE, account |-> acc, id |-> mid, error |-> o, retried |-> retried,
          classify |-> [retryable |-> FALSE, reason |-> ""]]
    ELSE [ok |-> FALSE, account |-> acc, id |-> <<>>, error |-> o, retried |-> FALSE,
          classify |-> classifyRetry(o)]

\* The first sendMail of a sendWithAccount call fails with a retryable error: the
\* call sleeps for SMTP_RETRY_DELAY_MS.
RetrySleep(i, e) ==
  /\ pipe' = [pipe EXCEPT ![i].pc = "sleep"]
  /\ log' = Settle(i, e)
  /\ UNCHANGED <<classified, variant, SENDER_POOL, reqNo, phase, messages, lastError,
                 disabledForLimit, perAccountStats, results, response, isBatch, lastPick,
                 quotaBefore>>

\* The delay is over: the call issues its second sendMail on the same account.
RetryTimer(i) ==
  /\ variant = "retry" /\ phase \in {"single", "batch"}
  /\ pipe[i].pc = "sleep"
  /\ pipe' = [pipe EXCEPT ![i].pc = "resend"]
  /\ log' = [log EXCEPT ![i] = Append(@, [acc |-> pipe[i].acc, out |-> Pending])]
  /\ UNCHANGED <<classified, variant, SENDER_POOL, reqNo, phase, messages, lastError,
                 disabledForLimit, perAccountStats, results, response, quotaBefore,
                 isBatch, lastPick>>

\* The continuation of `await sendWithAccount(acc, mailBase)` in the single loop
\* of part_002, when the call's last sendMail settles with o.
RetrySingleContinue(o) ==
  LET p == pipe[1]
      m == messages[1]
      result == sendWithAccount(p.acc, o, MessageId(1), p.pc = "resend")
      toNext ==
        IF p.k < Len(SENDER_POOL)
          THEN /\ pipe' = <<Pipe("send", SENDER_POOL[p.k + 1], p.k + 1,
                                 p.attempted + 1, p.first)>>
               /\ log' = SettleAndIssue(1, o, SENDER_POOL[p.k + 1])
               /\ UNCHANGED <<phase, response>>
          ELSE /\ Respond([status |-> 500,
                           error |-> "Failed to send email on all accounts",
                           detail |-> Or(result.error.msg, "Unknown error")])
               /\ pipe' = [pipe EXCEPT ![1].pc = "done"]
               /\ log' = Settle(1, o)
  IN  /\ UNCHANGED <<classified, variant, SENDER_POOL, reqNo, messages, disabledForLimit,
                     perAccountStats, results, isBatch, lastPick, quotaBefore>>
      /\ IF result.ok
           THEN /\ Respond([status |-> 200, message |-> "Email sent",
                            recipient |-> m.to, sender |-> p.acc, id |-> result.id])
                /\ pipe' = [pipe EXCEPT ![1].pc = "done"]
                /\ log' = Settle(1, o)
                /\ UNCHANGED lastError
         ELSE /\ lastError' = result.error
              /\ IF result.classify.reason = "Daily limit" THEN toNext
                 ELSE IF ~result.classify.retryable
                   THEN /\ Respond([status |-> 502, error |-> "Send failed",
                                    detail |-> result.classify.reason])
                        /\ pipe' = [pipe EXCEPT ![1].pc = "done"]
                        /\ log' = Settle(1, o)
                 ELSE toNext

\* The continuation of `await sendWithAccount(attemptAcc, mailBase)` in the
\* while loop of a batch pipeline of part_002.
RetryBatchContinue(i, o) ==
  LET p == pipe[i]
      msg == messages[i]
      out == sendWithAccount(p.acc, o, MessageId(i), p.pc = "resend")
      disabled == disabledForLimit \cup {p.acc}
      attemptAcc == pickAccount(i, disabled)
      fail == /\ perAccountStats' = IncFailed(perAccountStats, p.first)
              /\ results' = [results EXCEPT ![i] =
                   Failure(msg.to, Or(out.classify.reason, Or(out.error.msg, "unknown")))]
              /\ pipe' = [pipe EXCEPT ![i].pc = "done"]
              /\ log' = Settle(i, o)
  IN  /\ UNCHANGED <<classified, variant, SENDER_POOL, reqNo, messages, lastError, phase, response,
                     isBatch, quotaBefore>>
      /\ IF out.ok
           THEN /\ perAccountStats' = IncSent(perAccountStats, p.acc)
                /\ results' = [results EXCEPT ![i] =
                     Success(msg.to, p.acc, out.id, FALSE, out.retried)]
                /\ pipe' = [pipe EXCEPT ![i].pc = "done"]
                /\ log' = Settle(i, o)
                /\ UNCHANGED <<disabledForLimit, lastPick>>
         ELSE IF out.classify.reason = "Daily limit"
           THEN /\ disabledForLimit' = disabled
                /\ lastPick' = Picked(i, disabled, attemptAcc)
                /\ IF p.attempted < 2 /\ attemptAcc # NoAccount
                     THEN /\ pipe' = [pipe EXCEPT ![i] =
                               Pipe("send", attemptAcc, 0, p.attempted + 1, p.first)]
                          /\ log' = SettleAndIssue(i, o, attemptAcc)
                          /\ UNCHANGED <<perAccountStats, results>>
                     ELSE fail
         ELSE /\ fail
              /\ UNCHANGED <<disabledForLimit, lastPick>>

\* A sendMail of a sendWithAccount call resolves.
RetrySendResolves(i) ==
  /\ variant = "retry" /\ phase \in {"single", "batch"}
  /\ pipe[i].pc \in {"send", "resend"}
  /\ IF phase = "single" THEN RetrySingleContinue(Delivered)
     ELSE RetryBatchContinue(i, Delivered)

\* A sendMail of a sendWithAccount call rejects: the first one with a retryable
\* error starts the delay, any other ends the call.
RetrySendRejects(i) ==
  /\ variant = "retry" /\ phase \in {"single", "batch"}
  /\ pipe[i].pc \in {"send", "resend"}
  /\ \E e \in (IF phase = "single" THEN SingleErrors ELSE TransportErrors) :
       IF pipe[i].pc = "send" /\ classifyRetry(e).retryable THEN RetrySleep(i, e)
       ELSE IF phase = "single" THEN RetrySingleContinue(e)
       ELSE RetryBatchContinue(i, e)

\* ------------------------------------------------------------------- claims
Last(seq) == seq[Len(seq)]

\* A send of src/api/send.js that failed with the classification Daily limit
\* (a classification is told by its reason).
DailyLimit(o) == o.kind = "err" /\ classify(o).reason = "Daily limit"

OtherFailure(o) == o.kind = "err" /\ classify(o).reason # "Daily limit"

SingleServed == variant = "base" /\ ~isBatch /\ log # <<>>

\* C1: a single message is attempted on the pool accounts in pool order, each at
\* most once; the account at the next position is attempted exactly when the
\* attempt before it failed with Daily limit; a failure of any other
\* classification ends the request with an error response and no later attempt.
C1_SingleFailover ==
  SingleServed =>
    LET L == log[1]
        n == Len(SENDER_POOL)
    IN  /\ Len(L) <= n
        /\ \A j \in 1..Len(L) :
             /\ L[j].acc = SENDER_POOL[j]
             /\ (j < Len(L)) <=> (j < n /\ DailyLimit(L[j].out))
             /\ OtherFailure(L[j].out) =>
                  j = Len(L) /\ phase = "idle" /\ response.status = 502

C1_Witness ==
  /\ SingleServed /\ Len(SENDER_POOL) = 3 /\ phase = "idle"
  /\ Len(log[1]) = 2
  /\ DailyLimit(log[1][1].out) /\ OtherFailure(log[1][2].out)
  /\ classify(log[1][2].out).retryable

\* C2: when a send of a single message succeeds, the handler responds at once
\* with success and no further send is issued; the response names the account
\* of that send, the message id of that send and the recipient as supplied.
\* A first account that delivers leaves the second one unattempted.
C2_SingleSuccess ==
  SingleServed =>
    LET L == log[1]
    IN  /\ \A j \in 1..Len(L) :
             L[j].out.kind = "ok" =>
               /\ j = Len(L) /\ phase = "idle"
               /\ response.status = 200
               /\ response.sender = SENDER_POOL[j]
               /\ response.id = <<1, j>>
               /\ response.recipient = messages[1].to
        /\ (phase = "idle" /\ response.status = 200) => Last(L).out.kind = "ok"

C2_Witness ==
  /\ SingleServed /\ phase = "idle" /\ response.status = 200
  /\ Len(log[1]) = 2 /\ response.sender = SENDER_POOL[2]
  /\ Head(messages[1].to) = " "

\* C3 (as claimed): whenever a single-message request ends in failure, the detail
\* returned is the classification reason of the last send error.
C3_DetailIsLastReason ==
  (SingleServed /\ phase = "idle" /\ response.status \in {500, 502}) =>
    response.detail = classify(Last(log[1]).out).reason

\* C4: no message is delivered twice: of the sends issued for one message at most
\* one succeeds, and a send that succeeded is the last one issued for it, in the
\* single and the batch path of both files and for every order of completion.
C4_NoDuplicateMail ==
  \A i \in DOMAIN log :
    LET oks == {j \in 1..Len(log[i]) : log[i][j].out.kind = "ok"}
    IN  /\ Cardinality(oks) <= 1
        /\ \A j \in oks : j = Len(log[i]) /\ pipe[i].pc = "done"

C4_Witness ==
  /\ variant = "retry" /\ isBatch /\ phase = "idle" /\ Len(log) = 2
  /\ Len(log[1]) = 4 /\ Last(log[1]).out.kind = "ok"
  /\ Last(log[2]).out.kind = "ok"

BaseBatch == variant = "base" /\ isBatch

\* The pool account of position (index mod n), counting from 0.
PoolAt(index) == SENDER_POOL[(index % Len(SENDER_POOL)) + 1]

\* C5: a batch message of src/api/send.js is attempted on at most two accounts,
\* the second differs from the first, and there is no third attempt whatever
\* the second returns.
C5_AtMostTwoAccounts ==
  BaseBatch =>
    \A i \in DOMAIN log :
      /\ Len(log[i]) <= 2
      /\ Len(log[i]) = 2 =>
           /\ log[i][1].acc # log[i][2].acc
           /\ log[i][2].out.kind # "pending" => pipe[i].pc = "done"

C5_Witness ==
  /\ BaseBatch /\ Len(SENDER_POOL) = 3
  /\ \E i \in DOMAIN log :
       /\ Len(log[i]) = 2 /\ pipe[i].pc = "done"
       /\ DailyLimit(log[i][1].out) /\ DailyLimit(log[i][2].out)

\* What the last pickAccount call had to return: null exactly when every pool
\* account was disabled, else the first account from position startIndex mod n
\* on, wrapping, that was not disabled.
PickCorrect ==
  lastPick.called =>
    LET n == Len(SENDER_POOL)
        s == lastPick.startIndex
        d == lastPick.disabled
        r == lastPick.result
    IN  /\ (r = NoAccount) <=> (Range(SENDER_POOL) \subseteq d)
        /\ r # NoAccount =>
             /\ r \notin d
             /\ \E step \in 0..(n - 1) :
                  /\ PoolAt(s + step) = r
                  /\ \A t \in 0..(step - 1) : PoolAt(s + t) \in d

\* C6: within one batch disabledForLimit only grows; every pickAccount call sees
\* the set as it is then and returns the first account from its start position
\* on (wrapping) that is not in it, or null exactly when all accounts are.
C6_DisabledSticky ==
  [][ /\ (reqNo' = reqNo) => (disabledForLimit \subseteq disabledForLimit')
      /\ (lastPick' # lastPick /\ lastPick'.called) =>
           lastPick'.disabled = disabledForLimit'
      /\ PickCorrect' ]_vars

C6_Witness ==
  /\ BaseBatch /\ lastPick.called /\ Len(SENDER_POOL) = 3
  /\ lastPick.startIndex % 3 = 2
  /\ lastPick.disabled = {"u2", "u3"}
  /\ lastPick.result = "u1"

\* The accounts of the sends of the request being served.
Attempted == UNION { {log[i][j].acc : j \in 1..Len(log[i])} : i \in DOMAIN log }

Issued ==
  IF reqNo' # reqNo
    THEN UNION { {log'[i][j].acc : j \in 1..Len(log'[i])} : i \in DOMAIN log' }
    ELSE {Last(log'[i]).acc : i \in {h \in DOMAIN log' : Len(log'[h]) > Len(log[h])}}

\* The accounts that returned Daily limit to the first attempt of a message.
InitialQuota(lg) ==
  {lg[i][1].acc : i \in {h \in DOMAIN lg : lg[h] # <<>> /\ DailyLimit(lg[h][1].out)}}

C8_LaterMessagesSkip ==
  (BaseBatch /\ Len(SENDER_POOL) >= 2 /\ log # <<>> /\ DailyLimit(log[1][1].out)) =>
    /\ Len(log[1]) = 2 /\ log[1][2].acc # log[1][1].acc
    /\ \A i \in DOMAIN log : i > 1 => log[1][1].acc \notin {log[i][j].acc : j \in 1..Len(log[i])}

NoQuotaFailure ==
  \A i \in DOMAIN log : \A j \in 1..Len(log[i]) : ~DailyLimit(log[i][j].out)

\* C9: in a batch in which no account reports Daily limit, message i (from 0) is
\* attempted on exactly one account, the one at pool position i mod n, and each
\* account's sent counter in the summary is the number of delivered messages of
\* its positions: 2 and 2 for four messages over two healthy accounts.
C9_RoundRobin ==
  (BaseBatch /\ NoQuotaFailure) =>
    /\ \A i \in DOMAIN log : Len(log[i]) = 1 /\ log[i][1].acc = PoolAt(i - 1)
    /\ (phase = "idle" /\ response.status = 200) =>
         \A j \in DOMAIN SENDER_POOL :
           response.summary.perAccount[j].sent =
             Cardinality({i \in DOMAIN log :
                            log[i][1].out.kind = "ok" /\ PoolAt(i - 1) = SENDER_POOL[j]})

C9_Witness ==
  /\ BaseBatch /\ phase = "idle" /\ response.status = 200
  /\ Len(messages) = 4 /\ Len(SENDER_POOL) = 2
  /\ \A i \in 1..4 : results[i].ok
  /\ response.summary.perAccount[1].sent = 2
  /\ response.summary.perAccount[2].sent = 2

AllSettled == \A i \in DOMAIN pipe : pipe[i].pc = "done"

\* C10: if every send settles in the end, a batch is answered in the end; the
\* answer is given only when every pipeline has ended, it holds one terminal
\* result for every message, however many failed, and a result once recorded
\* does not change.
C10_BatchCompletes ==
  /\ (phase = "batch") ~> (phase = "idle" /\ response.status = 200)
  /\ [](( BaseBatch /\ phase = "idle" /\ response.status = 200) =>
          /\ AllSettled
          /\ Len(response.results) = Len(messages)
          /\ response.summary.total = Len(messages)
          /\ \A i \in DOMAIN messages :
               response.results[i].done /\ response.results[i].to = messages[i].to)
  /\ [][\A i \in DOMAIN results :
          (reqNo' = reqNo /\ results[i].done) => results'[i] = results[i]]_vars

C10_Witness ==
  /\ BaseBatch /\ phase = "idle" /\ response.status = 200
  /\ Len(messages) = 3
  /\ ~response.results[1].ok /\ ~response.results[2].ok /\ response.results[3].ok

\* Message i was delivered by its second send, issued after the first one failed
\* with Daily limit.
DeliveredByFallback(lg, i) ==
  /\ Len(lg[i]) = 2
  /\ DailyLimit(lg[i][1].out)
  /\ lg[i][2].out.kind = "ok"

\* C11: in a batch of src/api/send.js a result carries reassigned exactly when
\* its message was delivered by the fallback account after the initial account
\* failed with Daily limit; its sender is then the fallback account, not the
\* initial one, and the step that records it adds one to the sent counter of the
\* fallback account and to no other.
C11_ReassignedTag ==
  [][ BaseBatch' =>
        \A i \in DOMAIN results' :
          /\ results'[i].done =>
               (results'[i].reassigned <=> DeliveredByFallback(log', i))
          /\ results'[i].reassigned =>
               /\ results'[i].ok
               /\ results'[i].sender = log'[i][2].acc
               /\ results'[i].sender # log'[i][1].acc
               /\ (reqNo' = reqNo /\ ~results[i].done) =>
                    \A j \in DOMAIN perAccountStats' :
                      perAccountStats'[j].sent =
                        perAccountStats[j].sent +
                          (IF perAccountStats[j].user = log'[i][2].acc THEN 1 ELSE 0) ]_vars

C11_Witness ==
  /\ BaseBatch /\ Len(SENDER_POOL) = 2 /\ Len(messages) = 1
  /\ results[1].done /\ results[1].reassigned
  /\ results[1].sender = "u2"
  /\ perAccountStats[1].sent = 0 /\ perAccountStats[1].disabledForLimit
  /\ perAccountStats[2].sent = 1

\* C12: when the initial send of a batch message of src/api/send.js fails with a
\* classification other than Daily limit, the same step records the terminal
\* failure with that classification's reason, issues no other send for the
\* message, disables no account and adds one to the failed counter of that
\* account and of no other; no send for the message follows later either.
C12_NoFailoverOnOtherFailure ==
  [][ (BaseBatch /\ reqNo' = reqNo) =>
        \A i \in DOMAIN log :
          /\ (Len(log[i]) = 1 /\ log[i][1].out.kind = "pending"
                /\ OtherFailure(log'[i][1].out)) =>
               /\ results'[i].done /\ ~results'[i].ok
               /\ results'[i].error = classify(log'[i][1].out).reason
               /\ results'[i].to = messages[i].to
               /\ disabledForLimit' = disabledForLimit
               /\ \A j \in DOMAIN perAccountStats' :
                    perAccountStats'[j] =
                      IF perAccountStats[j].user = log[i][1].acc
                        THEN [perAccountStats[j] EXCEPT !.failed = @ + 1]
                        ELSE perAccountStats[j]
          /\ (log'[i] # <<>> /\ OtherFailure(log'[i][1].out)) =>
               Len(log'[i]) = 1 /\ pipe'[i].pc = "done" ]_vars

C12_Witness ==
  /\ BaseBatch /\ Len(SENDER_POOL) = 2 /\ Len(messages) = 3 /\ phase = "batch"
  /\ log[1][1].out.kind = "pending" /\ log[3][1].out.kind = "pending"
  /\ log[2][1].out = Err(421, OtherText) /\ Len(log[2]) = 1
  /\ results[2].done /\ results[2].error = "Temporary failure"
  /\ perAccountStats[2].failed = 1 /\ perAccountStats[1].failed = 0
  /\ disabledForLimit = {}

\* C13: classify of src/api/send.js answers every (responseCode, message), the
\* first test that matches deciding: the quota pattern gives Daily limit,
\* whatever the code; else a code of 550, 553, 554 gives Recipient rejected;
\* else a code of 421, 451, 452 gives Temporary failure; else the timeout
\* pattern gives Network timeout; else the error is unknown, its reason the
\* message or, without one, "Unknown error".  Only Temporary failure and
\* Network timeout are retryable.
C13_ClassifyPrecedence ==
  (variant = "base" /\ classified.called) =>
    LET e == classified.err
        r == classified.result
        quota == MatchesQuota(e.msg)
        permanent == ~quota /\ e.code \in {550, 553, 554}
        temporary == ~quota /\ ~permanent /\ e.code \in {421, 451, 452}
        timeout == ~quota /\ ~permanent /\ ~temporary /\ MatchesTimeout(e.msg)
        unknown == ~quota /\ ~permanent /\ ~temporary /\ ~timeout
    IN  /\ DOMAIN r = {"retryable", "reason"} /\ r.reason # ""
        /\ quota => r.reason = "Daily limit"
        /\ permanent => r.reason = "Recipient rejected"
        /\ temporary => r.reason = "Temporary failure"
        /\ timeout => r.reason = "Network timeout"
        /\ unknown => r.reason = (IF e.msg = "" THEN "Unknown error" ELSE e.msg)
        /\ r.retryable <=> (temporary \/ timeout)

C13_Witness ==
  /\ variant = "base" /\ classified.called
  /\ classified.err = Err(421, QuotaTimeoutText)
  /\ classified.result = [retryable |-> FALSE, reason |-> "Daily limit"]

\* C14 (as claimed): in src/unnamed/part_002 an error whose message matches the
\* quota pattern is classified Daily limit whatever its code, so that the
\* dispatcher neither retries the send on the same account nor ends a single
\* request with 502, but goes on to another account.
C14_QuotaTextIsDailyLimit ==
  variant = "retry" =>
    \A i \in DOMAIN log : \A j \in 1..Len(log[i]) :
      LET o == log[i][j].out
      IN  (o.kind = "err" /\ MatchesQuota(o.msg)) =>
            /\ classifyRetry(o).reason = "Daily limit"
            /\ pipe[i].pc # "sleep"
            /\ j < Len(log[i]) => log[i][j + 1].acc # log[i][j].acc
            /\ ~isBatch => response.status # 502

\* C15 (as claimed): in the single path of src/unnamed/part_002 a send that fails
\* as Temporary failure or Network timeout is retried at most once, on the same
\* account, and when the retry fails that way too the request ends in failure
\* with no send on another account.
C15_RetryThenStop ==
  (variant = "retry" /\ ~isBatch /\ log # <<>>) =>
    LET L == log[1]
        retryable(j) == L[j].out.kind = "err" /\ classifyRetry(L[j].out).retryable
        first(j) == j = 1 \/ L[j - 1].acc # L[j].acc
    IN  \A j \in 1..Len(L) :
          retryable(j) =>
            /\ Cardinality({h \in 1..Len(L) : L[h].acc = L[j].acc}) <= 2
            /\ j < Len(L) => (first(j) /\ L[j + 1].acc = L[j].acc)
            /\ ~first(j) => (j = Len(L) /\ phase = "idle" /\ response.status \in {500, 502})

\* A message that lacks a required field, names a recipient that is no address,
\* or carries an inline attachment over the limit.
Invalid(m) ==
  \/ m.subject = "" \/ m.body = "" \/ m.to = <<>>
  \/ (m.pdf = 0 /\ m.attachmentUrl = "")
  \/ ~isValidEmail(m.to)
  \/ b64ApproxBytes(m.pdf) > MaxAttachmentBytes

\* C16: when any message of a request is invalid, the request is rejected and no
\* send is issued for any message of it, the valid ones included.
C16_ValidationFirst ==
  (reqNo > 0 /\ \E i \in DOMAIN messages : Invalid(messages[i])) =>
    /\ log = <<>> /\ pipe = <<>>
    /\ phase = "idle"
    /\ response.status \in {400, 413, 500}
    /\ SENDER_POOL # <<>> => response.status \in {400, 413}

C16_Witness ==
  /\ reqNo > 0 /\ isBatch /\ Len(messages) = 2 /\ Len(SENDER_POOL) = 2
  /\ ~Invalid(messages[1]) /\ Invalid(messages[2])
  /\ b64ApproxBytes(messages[2].pdf) > MaxAttachmentBytes
  /\ log = <<>> /\ response.status = 413

NoAttachment(m) == m.pdf = 0 /\ m.attachmentUrl = ""

BothAttachments(m) == m.pdf # 0 /\ m.attachmentUrl # ""

\* C17 (as claimed): a request is dispatched only if every message of it has
\* exactly one of the two attachment forms: with neither, and with both, it is
\* rejected before dispatch.
C17_ExactlyOneAttachment ==
  (reqNo > 0 /\ \E i \in DOMAIN messages :
                  NoAttachment(messages[i]) \/ BothAttachments(messages[i])) =>
    log = <<>> /\ phase = "idle" /\ response.status \in {400, 413, 500}

\* C17 (amended): a request is dispatched only if every message of it has at
\* least one of the two attachment forms; a message with neither is rejected
\* before dispatch, and a message with both that is valid otherwise is
\* dispatched.
C17_AtLeastOneAttachment ==
  (reqNo > 0 /\ SENDER_POOL # <<>>) =>
    /\ (\E i \in DOMAIN messages : NoAttachment(messages[i])) =>
         log = <<>> /\ phase = "idle" /\ response.status \in {400, 413}
    /\ (messages # <<>> /\ \A i \in DOMAIN messages :
          /\ BothAttachments(messages[i])
          /\ messages[i].subject # "" /\ messages[i].body # ""
          /\ isValidEmail(messages[i].to)
          /\ b64ApproxBytes(messages[i].pdf) <= MaxAttachmentBytes) =>
         log # <<>> /\ response.status \notin {400, 413}

C17_Witness ==
  /\ reqNo > 0 /\ ~isBatch /\ SENDER_POOL # <<>>
  /\ BothAttachments(messages[1])
  /\ phase = "idle" /\ response.status = 200
  /\ Last(log[1]).out.kind = "ok"

\* C18: the answer to a batch is consistent whatever the order of completion:
\* summary.total is the number of messages and the sum of summary.success and
\* summary.failed; results[i] is the outcome of messages[i], with its recipient;
\* summary.failures lists the indices of the failed messages, all of them, each
\* once and in increasing order, each with the recipient and the error of its
\* message.
C18_SummaryConsistent ==
  (BaseBatch /\ phase = "idle" /\ response.status = 200) =>
    LET s == response.summary
        rs == response.results
        failed == {i \in DOMAIN rs : ~rs[i].ok}
        f == s.failures
    IN  /\ s.total = Len(messages)
        /\ s.total = s.success + s.failed
        /\ s.failed = Cardinality(failed)
        /\ DOMAIN rs = DOMAIN messages
        /\ \A i \in DOMAIN rs :
             /\ rs[i].to = messages[i].to
             /\ rs[i].ok <=> Last(log[i]).out.kind = "ok"
        /\ {f[j].index + 1 : j \in DOMAIN f} = failed
        /\ Len(f) = Cardinality(failed)
        /\ \A j \in DOMAIN f : \A h \in DOMAIN f : j < h => f[j].index < f[h].index
        /\ \A j \in DOMAIN f :
             /\ f[j].to = messages[f[j].index + 1].to
             /\ f[j].error = rs[f[j].index + 1].error

C18_Witness ==
  /\ BaseBatch /\ phase = "idle" /\ response.status = 200 /\ Len(messages) = 4
  /\ response.summary.success = 2 /\ response.summary.failed = 2
  /\ response.summary.failures[1].index = 1
  /\ response.summary.failures[2].index = 3
  /\ response.summary.failures[1].error # response.summary.failures[2].error

RECURSIVE SumSeq(_)
SumSeq(s) == IF s = <<>> THEN 0 ELSE Head(s) + SumSeq(Tail(s))

\* The sends of the batch through account user that were delivered.
DeliveredThrough(user) ==
  UNION { { <<i, j>> : j \in {h \in 1..Len(log[i]) :
                               log[i][h].acc = user /\ log[i][h].out.kind = "ok"} }
          : i \in DOMAIN log }

\* C19: no update of a counter is lost in a batch of src/api/send.js, whatever
\* the order of completion: each account's sent counter is the number of sends
\* delivered through it, the failed counters add up to the messages that have
\* failed, and in the answer the sent counters add up to summary.success and
\* the failed counters to summary.failed.
C19_NoLostUpdate ==
  (BaseBatch /\ perAccountStats # <<>>) =>
    LET sent == [j \in DOMAIN perAccountStats |-> perAccountStats[j].sent]
        failed == [j \in DOMAIN perAccountStats |-> perAccountStats[j].failed]
    IN  /\ \A j \in DOMAIN perAccountStats :
             /\ perAccountStats[j].user = SENDER_POOL[j]
             /\ sent[j] = Cardinality(DeliveredThrough(SENDER_POOL[j]))
        /\ SumSeq(failed) =
             Cardinality({i \in DOMAIN results : results[i].done /\ ~results[i].ok})
        /\ (phase = "idle" /\ response.status = 200) =>
             /\ response.summary.perAccount = perAccountStats
             /\ SumSeq(sent) = response.summary.success
             /\ SumSeq(failed) = response.summary.failed

C19_Witness ==
  /\ BaseBatch /\ phase = "idle" /\ response.status = 200
  /\ Len(SENDER_POOL) = 2 /\ Len(messages) = 4
  /\ perAccountStats[2].sent = 3 /\ perAccountStats[2].failed = 1
  /\ perAccountStats[1].sent = 0 /\ perAccountStats[1].failed = 0
  /\ perAccountStats[1].disabledForLimit

\* The accounts that have returned Daily limit to message i.
QuotaFor(lg, i) ==
  {lg[i][j].acc : j \in {h \in 1..Len(lg[i]) : DailyLimit(lg[i][h].out)}}

\* C20 (as claimed): a batch message of src/api/send.js is reported with the
\* error "All accounts exhausted (daily limit)" exactly when it fails on a Daily
\* limit failure that leaves no account that could take it: every account of
\* the pool is disabled or has returned Daily limit to the message.
C20_ExhaustedOutcome ==
  [][ (BaseBatch /\ reqNo' = reqNo) =>
        \A i \in DOMAIN results :
          (~results[i].done /\ results'[i].done /\ ~results'[i].ok) =>
            ( (results'[i].error = ExhaustedText)
                <=> ( /\ DailyLimit(Last(log'[i]).out)
                      /\ Range(SENDER_POOL) \subseteq
                           (disabledForLimit' \cup QuotaFor(log', i)) ) ) ]_vars

\* The accounts the statistics flag as disabled.
Flagged(stats) == {stats[j].user : j \in {h \in DOMAIN stats : stats[h].disabledForLimit}}

\* Every account answers all its sends alike: the settled sends on one account
\* have one outcome (an account's transport behaviour is fixed).
FixedBehaviour ==
  \A i \in DOMAIN log : \A h \in DOMAIN log :
    \A j \in 1..Len(log[i]) : \A k \in 1..Len(log[h]) :
      (log[i][j].acc = log[h][k].acc
         /\ log[i][j].out.kind # "pending" /\ log[h][k].out.kind # "pending") =>
        log[i][j].out = log[h][k].out

\* C21: two messages of a batch that both get Daily limit from one account do no
\* harm: marking an account that is marked already changes neither the set nor
\* any flag, and with every account answering all its sends alike the accounts
\* the summary flags are those of the messages' round-robin positions that
\* answer Daily limit, the same set in whatever order the sends complete.
C21_ConcurrentQuotaHarmless ==
  /\ [][ (BaseBatch /\ reqNo' = reqNo) =>
           \A i \in DOMAIN log :
             (/\ Len(log[i]) = 1 /\ log[i][1].out.kind = "pending"
              /\ DailyLimit(log'[i][1].out)
              /\ log[i][1].acc \in disabledForLimit) =>
               /\ disabledForLimit' = disabledForLimit
               /\ Flagged(perAccountStats') = Flagged(perAccountStats) ]_vars
  /\ []( (BaseBatch /\ phase = "idle" /\ response.status = 200 /\ FixedBehaviour) =>
           /\ Flagged(response.summary.perAccount) =
                {PoolAt(i - 1) : i \in {h \in DOMAIN log : DailyLimit(log[h][1].out)}}
           /\ Flagged(response.summary.perAccount) = disabledForLimit )

C21_Witness ==
  /\ BaseBatch /\ phase = "idle" /\ response.status = 200 /\ FixedBehaviour
  /\ Len(SENDER_POOL) = 2 /\ Len(messages) = 3
  /\ log[1][1].acc = "u1" /\ DailyLimit(log[1][1].out)
  /\ log[3][1].acc = "u1" /\ DailyLimit(log[3][1].out)
  /\ results[1].reassigned /\ results[3].reassigned
  /\ Flagged(response.summary.perAccount) = {"u1"}

\* C22: in a batch of src/api/send.js every message picks its first account
\* before any send of the batch has settled, with disabledForLimit empty: the
\* first send of message i is on the account at pool position i mod n, every
\* message gets a send, and over a pool that is not empty no message is answered
\* "All accounts exhausted" without a send.
C22_InitialPicksFirst ==
  /\ [][ (reqNo' # reqNo /\ isBatch' /\ variant = "base" /\ phase' = "batch") =>
           /\ disabledForLimit' = {}
           /\ DOMAIN log' = DOMAIN messages'
           /\ \A i \in DOMAIN log' :
                /\ Len(log'[i]) = 1
                /\ log'[i][1] = [acc |-> SENDER_POOL[((i - 1) % Len(SENDER_POOL)) + 1],
                                 out |-> Pending] ]_vars
  /\ []( (BaseBatch /\ reqNo > 0 /\ SENDER_POOL # <<>> /\ DOMAIN log = DOMAIN messages) =>
           \A i \in DOMAIN messages :
             /\ log[i] # <<>>
             /\ log[i][1].acc = PoolAt(i - 1)
             /\ (results[i].done /\ results[i].error = ExhaustedText) =>
                  /\ DailyLimit(log[i][1].out) /\ Len(log[i]) = 1
                  /\ Range(SENDER_POOL) \subseteq disabledForLimit )
  /\ []( (BaseBatch /\ phase = "batch") => DOMAIN log = DOMAIN messages )

C22_Witness ==
  /\ BaseBatch /\ phase = "batch" /\ Len(SENDER_POOL) = 3 /\ Len(messages) = 4
  /\ DailyLimit(log[1][1].out) /\ "u1" \in disabledForLimit
  /\ log[4] = <<[acc |-> "u1", out |-> Pending]>>

\* C23 (as claimed): when a batch of src/api/send.js is answered, the accounts in
\* disabledForLimit, and the accounts the summary flags, are exactly the
\* accounts that returned Daily limit to a send of the batch, be it the first
\* send of a message or its fallback send.
C23_EveryQuotaAccountFlagged ==
  (BaseBatch /\ phase = "idle" /\ response.status = 200) =>
    LET quota == UNION {QuotaFor(log, i) : i \in DOMAIN log}
    IN  /\ disabledForLimit = quota
        /\ Flagged(response.summary.perAccount) = quota

\* C24 (as claimed): in a batch of src/unnamed/part_002 no send is issued on an
\* account that is in disabledForLimit, neither by a pick nor by the delayed
\* second sendMail of sendWithAccount on the account of the first.
C24_NoSendOnDisabledAccount ==
  [][ (variant = "retry" /\ isBatch /\ phase = "batch" /\ reqNo' = reqNo) =>
        Issued \cap disabledForLimit' = {} ]_vars

\* C25: a batch message of src/unnamed/part_002 is sent on at most two accounts
\* and at most twice on each, four sends at most; a second send on an account
\* follows only a first send on it that failed with a retryable classification,
\* and a send on a second account follows only a Daily limit failure of the
\* last send on the first.
C25_RetryBatchAttempts ==
  (variant = "retry" /\ isBatch) =>
    \A i \in DOMAIN log :
      LET L == log[i]
          on(a) == {j \in 1..Len(L) : L[j].acc = a}
      IN  /\ Len(L) <= 4
          /\ Cardinality({L[j].acc : j \in 1..Len(L)}) <= 2
          /\ \A j \in 1..Len(L) : Cardinality(on(L[j].acc)) <= 2
          /\ \A j \in 1..(Len(L) - 1) :
               /\ L[j].out.kind = "err"
               /\ IF L[j + 1].acc = L[j].acc
                    THEN /\ classifyRetry(L[j].out).retryable
                         /\ (j = 1 \/ L[j - 1].acc # L[j].acc)
                    ELSE /\ classifyRetry(L[j].out).reason = "Daily limit"
                         /\ L[j + 1].acc \notin {L[h].acc : h \in 1..j}

C25_Witness ==
  /\ variant = "retry" /\ isBatch /\ Len(SENDER_POOL) = 3 /\ phase = "idle"
  /\ Len(log) = 1 /\ Len(log[1]) = 4
  /\ log[1][1].acc = "u2" /\ log[1][2].acc = "u2"
  /\ log[1][3].acc = "u1" /\ log[1][4].acc = "u1"
  /\ \A j \in 1..4 : log[1][j].out.kind = "err"
  /\ ~results[1].ok

\* C26 (as claimed): when a batch message of src/unnamed/part_002 fails for good,
\* the step adds one to the failed counter of the account of the message's last
\* send, the fallback account when that is where it failed, and to no other
\* counter.
C26_FailedCountsLastAccount ==
  [][ (variant = "retry" /\ isBatch /\ phase = "batch" /\ reqNo' = reqNo) =>
        \A i \in DOMAIN results :
          (~results[i].done /\ results'[i].done /\ ~results'[i].ok) =>
            \A j \in DOMAIN perAccountStats' :
              perAccountStats'[j].failed =
                perAccountStats[j].failed +
                  (IF perAccountStats[j].user = Last(log'[i]).acc THEN 1 ELSE 0) ]_vars

\* ------------------------------------------------------------ specification
InitProcess(variants) ==
  /\ variant \in variants
  /\ \E env \in Environments : SENDER_POOL = SenderPool(variant, env)
  /\ reqNo = 0
  /\ phase = "idle"
  /\ messages = <<>>
  /\ pipe = <<>>
  /\ lastError = NoError
  /\ disabledForLimit = {}
  /\ perAccountStats = <<>>
  /\ results = <<>>
  /\ response = NoResponse
  /\ log = <<>>
  /\ quotaBefore = {}
  /\ isBatch = FALSE
  /\ lastPick = NoPick
  /\ classified = NoClassified

\* src/api/send.js serving one request, a single message or a batch.
Init == InitProcess({"base"})

Next ==
  \/ HandlerSingle(1)
  \/ HandlerBatch(1, MaxBatch)
  \/ SingleSendResolves
  \/ SingleSendRejects
  \/ \E i \in DOMAIN pipe : BatchSendResolves(i)
  \/ \E i \in DOMAIN pipe : BatchSendRejects(i)
  \/ BatchRespond

Spec == Init /\ [][Next]_vars

\* src/api/send.js serving several requests, one after the other.
NextProcess ==
  \/ HandlerSingle(MaxRequests)
  \/ HandlerBatch(MaxRequests, MaxProcBatch)
  \/ SingleSendResolves
  \/ SingleSendRejects
  \/ \E i \in DOMAIN pipe : BatchSendResolves(i)
  \/ \E i \in DOMAIN pipe : BatchSendRejects(i)
  \/ BatchRespond

SpecProcess == Init /\ [][NextProcess]_vars

\* Either file serving one request.
InitBoth == InitProcess({"base", "retry"})

NextBoth ==
  \/ HandlerSingle(1)
  \/ HandlerBatch(1, MaxProcBatch)
  \/ SingleSendResolves
  \/ SingleSendRejects
  \/ \E i \in DOMAIN pipe : BatchSendResolves(i)
  \/ \E i \in DOMAIN pipe : BatchSendRejects(i)
  \/ \E i \in DOMAIN pipe : RetrySendResolves(i)
  \/ \E i \in DOMAIN pipe : RetrySendRejects(i)
  \/ \E i \in DOMAIN pipe : RetryTimer(i)
  \/ BatchRespond

SpecBoth == InitBoth /\ [][NextBoth]_vars

\* classify on its own, in either file: the argument is any error of
\* ClassifyInputs, the action is the call.
ClassifyCodes == {0, 250, 421, 451, 452, 550, 553, 554}

ClassifyTexts ==
  {QuotaText, QuotaLowerText, QuotaTimeoutText, TimeoutText, ResetText,
   GreetingText, OtherText, ""}

ClassifyInputs == {Err(c, m) : c \in ClassifyCodes, m \in ClassifyTexts}

ClassifyCall ==
  /\ ~classified.called
  /\ classified' = [called |-> TRUE, err |-> classified.err,
                    result |-> Classify(variant, classified.err)]
  /\ UNCHANGED <<variant, SENDER_POOL, reqNo, phase, messages, pipe, lastError,
                 disabledForLimit, perAccountStats, results, response, log,
                 quotaBefore, isBatch, lastPick>>

InitClassify ==
  /\ variant \in {"base", "retry"}
  /\ SENDER_POOL = SenderPool(variant, {1, 2, 3})
  /\ reqNo = 0
  /\ phase = "idle"
  /\ messages = <<>>
  /\ pipe = <<>>
  /\ lastError = NoError
  /\ disabledForLimit = {}
  /\ perAccountStats = <<>>
  /\ results = <<>>
  /\ response = NoResponse
  /\ log = <<>>
  /\ quotaBefore = {}
  /\ isBatch = FALSE
  /\ lastPick = NoPick
  /\ \E e \in ClassifyInputs : classified = Unclassified(e)

NextClassify == ClassifyCall

SpecClassify == InitClassify /\ [][NextClassify]_vars

\* src/api/send.js serving one batch, every send settling in the end: what is
\* awaited is the transport, whose socket timeout bounds every send, and a
\* promise that can settle does.
NextLive ==
  \/ HandlerBatch(1, MaxLiveBatch)
  \/ \E i \in DOMAIN pipe : BatchSendResolves(i)
  \/ \E i \in DOMAIN pipe : BatchSendRejects(i)
  \/ BatchRespond

SpecLive ==
  /\ Init
  /\ [][NextLive]_vars
  /\ \A i \in 1..MaxLiveBatch : WF_vars(BatchSendResolves(i) \/ BatchSendRejects(i))
  /\ WF_vars(BatchRespond)

====
